---- MODULE Spec2Model ----
(***************************************************************************)
(* Model of the Naver Cloud Platform API node                              *)
(* (src/nodes/NcpApi/NcpApi.node.ts).  The file holds two builds of the    *)
(* node: the first one (createNcpSignature at lines 15-28, execute at      *)
(* lines 184-281) signs the bare path and hands the query to the transport *)
(* as a separate qs object; the second one (createNcpSignature at lines    *)
(* 298-311, execute at lines 467-581) validates the path, merges the query *)
(* with URLSearchParams and signs path + '?' + query.  The variable        *)
(* version says which build runs.                                          *)
(*                                                                         *)
(* Strings that the code takes apart (path, query string, timestamp, keys, *)
(* canonical message) are sequences of one-character strings.  Strings     *)
(* the code only passes along or looks up (method, base URL, body JSON)    *)
(* are TLA+ strings.                                                       *)
(***************************************************************************)
EXTENDS Integers, Sequences, FiniteSets, TLC

\* ------------------------------------------------------------------------
\* Bounds of the model
\* ------------------------------------------------------------------------
MaxItems == 2
MaxClock == 10

\* ------------------------------------------------------------------------
\* String helpers (JavaScript String and template-literal semantics)
\* ------------------------------------------------------------------------

\* String.prototype.includes(ch)
Includes(s, ch) == \E k \in 1..Len(s) : s[k] = ch

\* index of the first occurrence of ch in s, 0 when absent
IndexOf(s, ch) ==
    IF Includes(s, ch)
    THEN CHOOSE k \in 1..Len(s) : s[k] = ch /\ \A j \in 1..(k-1) : s[j] # ch
    ELSE 0

\* String.prototype.split(ch) without a limit: every piece, empty ones too
RECURSIVE SplitOn(_, _)
SplitOn(s, ch) ==
    IF ~Includes(s, ch)
    THEN <<s>>
    ELSE LET k == IndexOf(s, ch)
         IN  <<SubSeq(s, 1, k-1)>> \o SplitOn(SubSeq(s, k+1, Len(s)), ch)

\* String.prototype.split(ch, limit): split everywhere, keep the first
\* limit pieces (the remainder is dropped, not glued to the last piece)
SplitLimit(s, ch, limit) ==
    LET all == SplitOn(s, ch)
    IN  SubSeq(all, 1, IF Len(all) < limit THEN Len(all) ELSE limit)

\* String.prototype.startsWith(ch)
StartsWith(s, ch) == Len(s) > 0 /\ s[1] = ch

\* Array.prototype.join(sep) on a sequence of strings
RECURSIVE Join(_, _)
Join(ss, sep) ==
    IF ss = <<>> THEN <<>>
    ELSE IF Len(ss) = 1 THEN ss[1]
    ELSE ss[1] \o sep \o Join(Tail(ss), sep)

\* Number.prototype.toString() of a non-negative integer
Digit(d) == CASE d = 0 -> "0" [] d = 1 -> "1" [] d = 2 -> "2" [] d = 3 -> "3"
              [] d = 4 -> "4" [] d = 5 -> "5" [] d = 6 -> "6" [] d = 7 -> "7"
              [] d = 8 -> "8" [] d = 9 -> "9"

RECURSIVE NumToString(_)
NumToString(k) ==
    IF k < 10 THEN <<Digit(k)>> ELSE NumToString(k \div 10) \o <<Digit(k % 10)>>

\* ------------------------------------------------------------------------
\* URLSearchParams (application/x-www-form-urlencoded parser and serializer)
\* A parameter list is a sequence of <<name, value>> pairs.
\* ------------------------------------------------------------------------

\* the percent-escapes the serializer emits for the characters of the model
PctCode(ch) == CASE ch = "+" -> <<"%", "2", "B">>
                 [] ch = "/" -> <<"%", "2", "F">>
                 [] ch = "=" -> <<"%", "3", "D">>
                 [] ch = "&" -> <<"%", "2", "6">>
                 [] ch = "?" -> <<"%", "3", "F">>
                 [] ch = "%" -> <<"%", "2", "5">>
                 [] OTHER    -> <<ch>>

Escaped == {"+", "/", "=", "&", "?", "%"}

\* serializer: space becomes '+', reserved bytes are percent-encoded,
\* alphanumerics stay
RECURSIVE UrlEncode(_)
UrlEncode(s) ==
    IF s = <<>> THEN <<>>
    ELSE (IF Head(s) = " " THEN <<"+">> ELSE PctCode(Head(s))) \o UrlEncode(Tail(s))

\* parser, first step: '+' becomes a space
RECURSIVE PlusToSpace(_)
PlusToSpace(s) ==
    IF s = <<>> THEN <<>>
    ELSE <<IF Head(s) = "+" THEN " " ELSE Head(s)>> \o PlusToSpace(Tail(s))

\* parser, second step: percent-decoding; a '%' not followed by a known
\* escape is kept as it is
RECURSIVE PctDecode(_)
PctDecode(s) ==
    IF s = <<>> THEN <<>>
    ELSE IF Head(s) = "%" /\ Len(s) >= 3
             /\ \E ch \in Escaped : PctCode(ch) = SubSeq(s, 1, 3)
         THEN <<CHOOSE ch \in Escaped : PctCode(ch) = SubSeq(s, 1, 3)>>
                  \o PctDecode(SubSeq(s, 4, Len(s)))
         ELSE <<Head(s)>> \o PctDecode(Tail(s))

UrlDecode(s) == PctDecode(PlusToSpace(s))

\* one name=value piece of a query string, split at its first '='
ParsePair(piece) ==
    LET k == IndexOf(piece, "=")
    IN  IF k = 0
        THEN <<UrlDecode(piece), <<>>>>
        ELSE <<UrlDecode(SubSeq(piece, 1, k-1)),
               UrlDecode(SubSeq(piece, k+1, Len(piece)))>>

RECURSIVE ParsePieces(_)
ParsePieces(pieces) ==
    IF pieces = <<>> THEN <<>>
    ELSE IF Head(pieces) = <<>>
         THEN ParsePieces(Tail(pieces))
         ELSE <<ParsePair(Head(pieces))>> \o ParsePieces(Tail(pieces))

\* new URLSearchParams(queryString)
ParseQuery(queryString) == ParsePieces(SplitOn(queryString, "&"))

RECURSIVE SerializePairs(_)
SerializePairs(list) ==
    IF list = <<>> THEN <<>>
    ELSE <<UrlEncode(list[1][1]) \o <<"=">> \o UrlEncode(list[1][2])>>
             \o SerializePairs(Tail(list))

\* URLSearchParams.prototype.toString()
QueryToString(list) == Join(SerializePairs(list), <<"&">>)

HasName(list, name) == \E k \in 1..Len(list) : list[k][1] = name

FirstIndex(list, name) ==
    CHOOSE k \in 1..Len(list) :
        list[k][1] = name /\ \A j \in 1..(k-1) : list[j][1] # name

RECURSIVE DropName(_, _)
DropName(list, name) ==
    IF list = <<>> THEN <<>>
    ELSE IF Head(list)[1] = name
         THEN DropName(Tail(list), name)
         ELSE <<Head(list)>> \o DropName(Tail(list), name)

\* URLSearchParams.prototype.set(name, value): the first entry of that name
\* gets the value and the other entries of that name are removed; a new
\* name is appended
SearchParamsSet(list, name, value) ==
    IF HasName(list, name)
    THEN LET k == FirstIndex(list, name)
         IN  SubSeq(list, 1, k-1) \o <<<<name, value>>>>
                 \o DropName(SubSeq(list, k+1, Len(list)), name)
    ELSE Append(list, <<name, value>>)

\* ------------------------------------------------------------------------
\* The qs object of the first build (IDataObject, a plain JavaScript object)
\* An object is the sequence of its <<key, value>> pairs in own-property
\* order: integer-like keys first in ascending numeric order, then the
\* other keys in insertion order.
\* ------------------------------------------------------------------------
Digits == {"0", "1", "2", "3", "4", "5", "6", "7", "8", "9"}

DigitVal(ch) == CHOOSE d \in 0..9 : Digit(d) = ch

IsIndexKey(key) ==
    /\ Len(key) > 0
    /\ \A k \in 1..Len(key) : key[k] \in Digits
    /\ (Len(key) > 1 => key[1] # "0")

RECURSIVE KeyToNum(_)
KeyToNum(key) ==
    IF key = <<>> THEN 0
    ELSE 10 * KeyToNum(SubSeq(key, 1, Len(key)-1)) + DigitVal(key[Len(key)])

\* number of leading entries of obj that stay in front of a new index key
RECURSIVE IndexSlot(_, _)
IndexSlot(obj, key) ==
    IF obj = <<>> THEN 0
    ELSE IF IsIndexKey(Head(obj)[1]) /\ KeyToNum(Head(obj)[1]) < KeyToNum(key)
         THEN 1 + IndexSlot(Tail(obj), key)
         ELSE 0

\* qs[key] = value
ObjectSet(obj, key, value) ==
    IF HasName(obj, key)
    THEN [obj EXCEPT ![FirstIndex(obj, key)] = <<key, value>>]
    ELSE IF IsIndexKey(key)
         THEN LET k == IndexSlot(obj, key)
              IN  SubSeq(obj, 1, k) \o <<<<key, value>>>> \o SubSeq(obj, k+1, Len(obj))
         ELSE Append(obj, <<key, value>>)

\* for (const [key, value] of sp.entries()) qs[key] = value
RECURSIVE ObjectAssignAll(_, _)
ObjectAssignAll(obj, entries) ==
    IF entries = <<>> THEN obj
    ELSE ObjectAssignAll(ObjectSet(obj, Head(entries)[1], Head(entries)[2]),
                         Tail(entries))

\* ------------------------------------------------------------------------
\* Path and query handling of execute
\* ------------------------------------------------------------------------

\* a query container declared outside the loop: each iteration goes on with
\* the entries of the one before
KeptQuery(previous) == previous

\* the query container every loop iteration starts from:
\* const qs = {} (first build), new URLSearchParams() (second build);
\* previous is the container of the iteration before
NewQuery(previous) == <<>>

\* pathOnly || '/'
PathOrRoot(pathOnly) == IF pathOnly = <<>> THEN <<"/">> ELSE pathOnly

\* first build: purePath and qs from the path parameter
SplitPathV1(rawPath, qs0) ==
    IF Includes(rawPath, "?")
    THEN LET parts == SplitLimit(rawPath, "?", 2)
         IN  [path |-> PathOrRoot(parts[1]),
              qs   |-> IF parts[2] # <<>>
                       THEN ObjectAssignAll(qs0, ParseQuery(parts[2]))
                       ELSE qs0]
    ELSE [path |-> rawPath, qs |-> qs0]

\* second build: basePath and searchParams from the path parameter
SplitPathV2(rawPathParam, sp0) ==
    IF Includes(rawPathParam, "?")
    THEN LET parts == SplitLimit(rawPathParam, "?", 2)
         IN  [path |-> PathOrRoot(parts[1]),
              qs   |-> IF parts[2] # <<>> THEN ParseQuery(parts[2]) ELSE sp0]
    ELSE [path |-> rawPathParam, qs |-> sp0]

\* first build: the query collection merged into the qs object; entries
\* with an empty name are skipped
RECURSIVE MergeQueryV1(_, _)
MergeQueryV1(qs, params) ==
    IF params = <<>> THEN qs
    ELSE MergeQueryV1(IF Head(params).name # <<>>
                      THEN ObjectSet(qs, Head(params).name, Head(params).value)
                      ELSE qs,
                      Tail(params))

\* second build: the query collection merged with searchParams.set
RECURSIVE MergeQueryV2(_, _)
MergeQueryV2(sp, params) ==
    IF params = <<>> THEN sp
    ELSE MergeQueryV2(IF Head(params).name # <<>>
                      THEN SearchParamsSet(sp, Head(params).name, Head(params).value)
                      ELSE sp,
                      Tail(params))

\* second build: pathWithQuery
PathWithQuery(basePath, searchParams) ==
    LET queryStringFinal == QueryToString(searchParams)
    IN  IF Len(queryStringFinal) > 0
        THEN basePath \o <<"?">> \o queryStringFinal
        ELSE basePath

\* the path handed to createNcpSignature: purePath in the first build,
\* pathWithQuery in the second
SignedPath(v, path, qs) == IF v = 1 THEN path ELSE PathWithQuery(path, qs)

\* second build: !rawPathParam || !rawPathParam.startsWith('/')
PathRejected(rawPathParam) == rawPathParam = <<>> \/ ~StartsWith(rawPathParam, "/")

\* baseUrlParam === 'custom' ? customBaseUrl : baseUrlParam
BaseUrlOf(p) == IF p.baseUrl = "custom" THEN p.customBaseUrl ELSE p.baseUrl

\* ------------------------------------------------------------------------
\* Signing
\* ------------------------------------------------------------------------

\* a message that ends in a newline, as a template literal with a trailing
\* separator would build it
MessageWithTrailingNewline(method, path, timestamp, accessKey) ==
    <<method>> \o <<" ">> \o path \o <<"\n">> \o timestamp \o <<"\n">> \o accessKey
        \o <<"\n">>

\* the template literal `${method} ${path}\n${timestamp}\n${accessKey}`;
\* the method is one symbol of the message
CanonicalMessage(method, path, timestamp, accessKey) ==
    <<method>> \o <<" ">> \o path \o <<"\n">> \o timestamp \o <<"\n">> \o accessKey

\* createHmac('sha256', key).update(message).digest('base64'), kept symbolic:
\* the digest is determined by, and stands for, its key and its message
HmacSha256Base64(key, message) == [alg |-> "HmacSHA256/base64", key |-> key, msg |-> message]

createNcpSignature(method, path, timestamp, accessKey, secretKey) ==
    HmacSha256Base64(secretKey, CanonicalMessage(method, path, timestamp, accessKey))

\* Date.now().toString()
Timestamp(now) == NumToString(now)

\* headers with the timestamp and the access key under each other's name
HeadersSwapped(timestamp, accessKey, signature) ==
    [ts |-> accessKey, accessKey |-> timestamp, signature |-> signature,
     contentType |-> "application/json"]

\* the headers object of a request
Headers(timestamp, accessKey, signature) ==
    [ts |-> timestamp, accessKey |-> accessKey, signature |-> signature,
     contentType |-> "application/json"]

\* `${baseUrl}${path}`: the base URL is one symbol in front of the path
UrlOf(baseUrl, path) == IF baseUrl = "" THEN path ELSE <<baseUrl>> \o path

\* ------------------------------------------------------------------------
\* Body
\* ------------------------------------------------------------------------
ValidJson == {"{}", "{\"k\":1}"}

\* bodyJson.trim()
Trim(bodyJson) == IF bodyJson = " " THEN "" ELSE bodyJson

NoBody == "<none>"

\* bodyData: {} for a blank string, JSON.parse(bodyJson) otherwise
\* (the parsed value is named by its JSON text)
BodyThrows(bodyJson) == Trim(bodyJson) # "" /\ bodyJson \notin ValidJson

BodyData(bodyJson) == IF Trim(bodyJson) # "" THEN bodyJson ELSE "{}"

\* requestOptions; the second build has no qs key, which the transport
\* treats as the empty object
RequestOptions(v, method, baseUrl, path, qs, headers, body) ==
    [method  |-> method,
     url     |-> UrlOf(baseUrl, SignedPath(v, path, qs)),
     headers |-> headers,
     qs      |-> IF v = 1 THEN qs ELSE <<>>,
     json    |-> TRUE,
     body    |-> body]

\* throw error: the caught error rethrown as it is
Rethrown(error) == error

\* throw new NodeApiError(this.getNode(), error): an error is the chain of
\* its layers, outermost first
NodeApiError(error) == <<"NodeApiError">> \o error

\* ------------------------------------------------------------------------
\* Inputs: what the host's parameter collector, credential provider and
\* HTTP transport can supply
\* ------------------------------------------------------------------------
Methods == {"DELETE", "GET", "PATCH", "POST", "PUT"}

DefaultBaseUrl == "https://ncloud.apigw.ntruss.com"
CustomBaseUrls == {"", "https://example.apigw.ntruss.com"}

Paths ==
    { <<>>,                                              \* ''
      <<"a">>,                                           \* 'a'
      <<"?", "x", "=", "1">>,                            \* '?x=1'
      <<"/", "a">>,                                      \* '/a'
      <<"/", "a", "?">>,                                 \* '/a?'
      <<"/", "a", "?", "x", "=", "1">>,                  \* '/a?x=1'
      <<"/", "a", "?", "x", "=", "1", "&", "x", "=", "2">>,   \* '/a?x=1&x=2'
      <<"/", "a", "?", "y", "=", "1", "&", "x", "=", "1">>,   \* '/a?y=1&x=1'
      <<"/", "a", "?", "x", "=", "1", "?", "y", "=", "2">>,   \* '/a?x=1?y=2'
      <<"/", "a", "?", "x", "=", "%", "2", "F", "+">> }  \* '/a?x=%2F+'

Param(name, value) == [name |-> name, value |-> value]

QueryCollections ==
    { <<>>,                                              \* no entries
      <<Param(<<"x">>, <<"2">>), Param(<<"y">>, <<"3">>)>>,
      <<Param(<<>>, <<"9">>), Param(<<"y">>, <<"3">>)>>,   \* empty name
      <<Param(<<"x">>, <<"2">>), Param(<<"x">>, <<"3">>)>>,
      <<Param(<<"y">>, <<"a", " ", "b">>), Param(<<"1">>, <<"2">>)>> }

BodyInputs ==
    { [sendBody |-> FALSE, bodyJson |-> "{}"],
      [sendBody |-> TRUE,  bodyJson |-> "{\"k\":1}"],
      [sendBody |-> TRUE,  bodyJson |-> " "],
      [sendBody |-> TRUE,  bodyJson |-> "{bad"] }

BaseInputs ==
    {[baseUrl |-> DefaultBaseUrl, customBaseUrl |-> ""]}
        \cup {[baseUrl |-> "custom", customBaseUrl |-> u] : u \in CustomBaseUrls}

ItemParams(paths, queries, methods, bodies, bases) ==
    { [baseUrl |-> b.baseUrl, customBaseUrl |-> b.customBaseUrl, path |-> p,
       method |-> m, query |-> q, sendBody |-> d.sendBody, bodyJson |-> d.bodyJson] :
          p \in paths, q \in queries, m \in methods, d \in bodies, b \in bases }

\* one execute call at a time: every path with every query collection, and
\* every method, body and base URL with a few of the paths and collections
AllParams ==
    ItemParams(Paths, QueryCollections, {"GET"},
               {[sendBody |-> FALSE, bodyJson |-> "{}"]},
               {[baseUrl |-> DefaultBaseUrl, customBaseUrl |-> ""]})
      \cup
    ItemParams({ <<>>, <<"/", "a", "?", "x", "=", "1">> },
               { <<>>, <<Param(<<"x">>, <<"2">>), Param(<<"y">>, <<"3">>)>> },
               Methods, BodyInputs, BaseInputs)

\* a smaller parameter space for two execute calls running interleaved: a
\* bare path, a path with an embedded query that the collection overrides
\* and extends, and a path the second build rejects
FewParams ==
    ItemParams({ <<"/", "a">>, <<"a">> }, { <<>> }, {"GET"},
               { [sendBody |-> FALSE, bodyJson |-> "{}"] },
               {[baseUrl |-> DefaultBaseUrl, customBaseUrl |-> ""]})
      \cup
    ItemParams({ <<"/", "a", "?", "x", "=", "1">> },
               { <<Param(<<"x">>, <<"2">>), Param(<<"y">>, <<"3">>)>> }, {"GET"},
               { [sendBody |-> FALSE, bodyJson |-> "{}"] },
               {[baseUrl |-> DefaultBaseUrl, customBaseUrl |-> ""]})

Credentials == [accessKey |-> <<"A", "K">>, secretKey |-> <<"S", "K">>]

Responses == {"r1", "r2"}

TransportErrors == {<<"HTTP 404">>, <<"HTTP 500">>}

Calls == {1, 2}

\* ------------------------------------------------------------------------
\* State
\* ------------------------------------------------------------------------
VARIABLES
    version,      \* 1: execute of lines 184-281, 2: execute of lines 467-581
    active,       \* the execute calls of this run
    clock,        \* Date.now()
    pc,           \* per call: where execute stands
    nItems,       \* per call: items.length
    idx,          \* per call: the loop variable i
    params,       \* per call: the parameters read for item i
    path,         \* per call: purePath / basePath
    qs,           \* per call: qs / searchParams
    timestamp,    \* per call: timestamp
    signed,       \* per call: the arguments createNcpSignature was called with
    signature,    \* per call: signature
    request,      \* per call: the requestOptions handed to httpRequest
    dispatched,   \* per call: the items httpRequest was called for, in order
    returnItems,  \* per call: returnItems
    output,       \* per call: what execute returned
    thrown,       \* per call: the error the collaborator raised
    error         \* per call: the error execute raised

vars == <<version, active, clock, pc, nItems, idx, params, path, qs,
          timestamp, signed, signature, request, dispatched, returnItems,
          output, thrown, error>>

None == <<>>

NoParams == [baseUrl |-> "", customBaseUrl |-> "", path |-> <<>>, method |-> "",
             query |-> <<>>, sendBody |-> FALSE, bodyJson |-> ""]

InitCalls ==
    /\ version \in {1, 2}
    /\ clock = 9           \* a one-digit time, so that the clock grows a digit
    /\ pc = [c \in Calls |-> "idle"]
    /\ nItems = [c \in Calls |-> 0]
    /\ idx = [c \in Calls |-> 0]
    /\ params = [c \in Calls |-> NoParams]
    /\ path = [c \in Calls |-> None]
    /\ qs = [c \in Calls |-> None]
    /\ timestamp = [c \in Calls |-> None]
    /\ signed = [c \in Calls |-> None]
    /\ signature = [c \in Calls |-> None]
    /\ request = [c \in Calls |-> None]
    /\ dispatched = [c \in Calls |-> <<>>]
    /\ returnItems = [c \in Calls |-> <<>>]
    /\ output = [c \in Calls |-> None]
    /\ thrown = [c \in Calls |-> None]
    /\ error = [c \in Calls |-> None]

\* one execute call, any parameters
Init == InitCalls /\ active = {1}

\* two interleaved execute calls
InitConcurrent == InitCalls /\ active = Calls

\* the parameters getNodeParameter can return for an item: every
\* combination under one call, the smaller space under interleaved calls
Inputs == IF active = Calls THEN FewParams ELSE AllParams

\* ------------------------------------------------------------------------
\* execute, one action per stretch between two suspension points
\* ------------------------------------------------------------------------

\* a loop that does not advance and so repeats the item
SameIndex(i) == i

\* i++ of the for loop
NextIndex(i) == i + 1

\* execute is called: items = getInputData(), returnItems = []
Execute(c) ==
    /\ c \in active
    /\ pc[c] = "idle"
    /\ \E k \in 0..MaxItems : nItems' = [nItems EXCEPT ![c] = k]
    /\ idx' = [idx EXCEPT ![c] = 0]
    /\ returnItems' = [returnItems EXCEPT ![c] = <<>>]
    /\ pc' = [pc EXCEPT ![c] = "loop"]
    /\ UNCHANGED <<version, active, clock, params, path, qs, timestamp, signed,
                   signature, request, dispatched, output, thrown, error>>

\* second build only: the checks that throw before the path is parsed
ValidationMessage(v, p) ==
    IF v = 2 /\ BaseUrlOf(p) = "" THEN <<"Base URL is required">>
    ELSE IF v = 2 /\ PathRejected(p.path) THEN <<"Path must start with \"/\"">>
    ELSE None

\* the constants of a loop iteration, not yet assigned
FreshLocals(c) ==
    /\ timestamp' = [timestamp EXCEPT ![c] = None]
    /\ signed' = [signed EXCEPT ![c] = None]
    /\ signature' = [signature EXCEPT ![c] = None]
    /\ request' = [request EXCEPT ![c] = None]

\* loop body up to the throw of a validation error, which the catch clause
\* wraps once more
ValidationFails(c) ==
    /\ c \in active
    /\ pc[c] = "loop" /\ idx[c] < nItems[c]
    /\ \E p \in Inputs :
          /\ ValidationMessage(version, p) # None
          /\ params' = [params EXCEPT ![c] = p]
          /\ error' = [error EXCEPT ![c] =
                          NodeApiError(NodeApiError(ValidationMessage(version, p)))]
    /\ FreshLocals(c)
    /\ pc' = [pc EXCEPT ![c] = "failed"]
    /\ UNCHANGED <<version, active, clock, nItems, idx, path, qs, dispatched,
                   returnItems, output, thrown>>

\* loop body up to await getCredentials: parameters read, path split,
\* query merged
ReadParameters(c) ==
    /\ c \in active
    /\ pc[c] = "loop" /\ idx[c] < nItems[c]
    /\ \E p \in Inputs :
          LET q0    == NewQuery(qs[c])
              split == IF version = 1 THEN SplitPathV1(p.path, q0)
                                      ELSE SplitPathV2(p.path, q0)
          IN  /\ ValidationMessage(version, p) = None
              /\ params' = [params EXCEPT ![c] = p]
              /\ path' = [path EXCEPT ![c] = split.path]
              /\ qs' = [qs EXCEPT ![c] =
                           IF version = 1 THEN MergeQueryV1(split.qs, p.query)
                                          ELSE MergeQueryV2(split.qs, p.query)]
    /\ FreshLocals(c)
    /\ pc' = [pc EXCEPT ![c] = "await_creds"]
    /\ UNCHANGED <<version, active, clock, nItems, idx, dispatched, returnItems,
                   output, thrown, error>>

\* getCredentials rejects; the catch clause wraps the error
CredentialsRejected(c) ==
    /\ c \in active
    /\ pc[c] = "await_creds"
    /\ thrown' = [thrown EXCEPT ![c] = <<"credentials not found">>]
    /\ error' = [error EXCEPT ![c] = NodeApiError(<<"credentials not found">>)]
    /\ pc' = [pc EXCEPT ![c] = "failed"]
    /\ UNCHANGED <<version, active, clock, nItems, idx, params, path, qs,
                   timestamp, signed, signature, request, dispatched,
                   returnItems, output>>

\* getCredentials resolves: timestamp, signature, headers, requestOptions,
\* body; then httpRequest is called, unless JSON.parse threw
SignAndDispatch(c) ==
    /\ c \in active
    /\ pc[c] = "await_creds"
    /\ LET p       == params[c]
           ts      == Timestamp(clock)
           sigpath == SignedPath(version, path[c], qs[c])
           sig     == createNcpSignature(p.method, sigpath, ts,
                                         Credentials.accessKey, Credentials.secretKey)
           headers == Headers(ts, Credentials.accessKey, sig)
       IN  /\ timestamp' = [timestamp EXCEPT ![c] = ts]
           /\ signed' = [signed EXCEPT ![c] =
                            <<p.method, sigpath, ts,
                              Credentials.accessKey, Credentials.secretKey>>]
           /\ signature' = [signature EXCEPT ![c] = sig]
           /\ IF p.sendBody /\ BodyThrows(p.bodyJson)
              THEN /\ error' = [error EXCEPT ![c] = NodeApiError(<<"SyntaxError">>)]
                   /\ pc' = [pc EXCEPT ![c] = "failed"]
                   /\ UNCHANGED <<request, dispatched>>
              ELSE /\ request' = [request EXCEPT ![c] =
                          RequestOptions(version, p.method, BaseUrlOf(p), path[c],
                                         qs[c], headers,
                                         IF p.sendBody THEN BodyData(p.bodyJson)
                                                       ELSE NoBody)]
                   /\ dispatched' = [dispatched EXCEPT ![c] = Append(@, idx[c])]
                   /\ pc' = [pc EXCEPT ![c] = "await_http"]
                   /\ UNCHANGED error
    /\ UNCHANGED <<version, active, clock, nItems, idx, params, path, qs,
                   returnItems, output, thrown>>

\* httpRequest resolves: the response is pushed, the iteration's constants
\* go out of scope and the loop goes on (qs stays in the state until the
\* next iteration makes its own, so that NewQuery can be handed it)
HttpResponse(c) ==
    /\ c \in active
    /\ pc[c] = "await_http"
    /\ \E r \in Responses :
          returnItems' = [returnItems EXCEPT ![c] =
                             Append(@, [json |-> r, item |-> idx[c]])]
    /\ idx' = [idx EXCEPT ![c] = NextIndex(@)]
    /\ params' = [params EXCEPT ![c] = NoParams]
    /\ path' = [path EXCEPT ![c] = None]
    /\ FreshLocals(c)
    /\ pc' = [pc EXCEPT ![c] = "loop"]
    /\ UNCHANGED <<version, active, clock, nItems, qs, dispatched, output,
                   thrown, error>>

\* httpRequest rejects; the catch clause throws a NodeApiError made of it
HttpError(c) ==
    /\ c \in active
    /\ pc[c] = "await_http"
    /\ \E e \in TransportErrors :
          /\ thrown' = [thrown EXCEPT ![c] = e]
          /\ error' = [error EXCEPT ![c] = NodeApiError(e)]
    /\ pc' = [pc EXCEPT ![c] = "failed"]
    /\ UNCHANGED <<version, active, clock, nItems, idx, params, path, qs,
                   timestamp, signed, signature, request, dispatched,
                   returnItems, output>>

\* the loop is over: return [returnItems]
Return(c) ==
    /\ c \in active
    /\ pc[c] = "loop" /\ idx[c] >= nItems[c]
    /\ output' = [output EXCEPT ![c] = <<returnItems[c]>>]
    /\ pc' = [pc EXCEPT ![c] = "done"]
    /\ UNCHANGED <<version, active, clock, nItems, idx, params, path, qs,
                   timestamp, signed, signature, request, dispatched,
                   returnItems, thrown, error>>

\* time passes
Tick ==
    /\ clock < MaxClock
    /\ clock' = clock + 1
    /\ UNCHANGED <<version, active, pc, nItems, idx, params, path, qs, timestamp,
                   signed, signature, request, dispatched, returnItems, output,
                   thrown, error>>

Next ==
    \/ \E c \in Calls : Execute(c)
    \/ \E c \in Calls : ValidationFails(c)
    \/ \E c \in Calls : ReadParameters(c)
    \/ \E c \in Calls : CredentialsRejected(c)
    \/ \E c \in Calls : SignAndDispatch(c)
    \/ \E c \in Calls : HttpResponse(c)
    \/ \E c \in Calls : HttpError(c)
    \/ \E c \in Calls : Return(c)
    \/ Tick

Spec == Init /\ [][Next]_vars

SpecConcurrent == InitConcurrent /\ [][Next]_vars

\* ------------------------------------------------------------------------
\* What the transport puts on the request line
\* ------------------------------------------------------------------------
BaseUrls == ({DefaultBaseUrl} \cup CustomBaseUrls) \ {""}

\* path + query of a request descriptor: the url without its base URL,
\* followed by the serialized qs object when there is one
RequestTarget(r) ==
    LET rest == IF r.url # <<>> /\ r.url[1] \in BaseUrls THEN Tail(r.url) ELSE r.url
    IN  IF r.qs = <<>> THEN rest
        ELSE rest \o <<IF Includes(rest, "?") THEN "&" ELSE "?">> \o QueryToString(r.qs)

\* the query string embedded in a path parameter, parsed
EmbeddedQuery(rawPath) ==
    IF Includes(rawPath, "?") THEN ParseQuery(SplitLimit(rawPath, "?", 2)[2]) ELSE <<>>

\* the path parameter without its query string
BarePath(rawPath) ==
    IF Includes(rawPath, "?") THEN SplitLimit(rawPath, "?", 2)[1] ELSE rawPath

\* the names of a list of pairs, each once, in order of first appearance
RECURSIVE NamesOnce(_)
NamesOnce(list) ==
    IF list = <<>> THEN <<>>
    ELSE <<Head(list)[1]>> \o NamesOnce(DropName(Tail(list), Head(list)[1]))

\* the entries of the query collection that have a name, as pairs
RECURSIVE NamedEntries(_)
NamedEntries(collection) ==
    IF collection = <<>> THEN <<>>
    ELSE IF Head(collection).name = <<>>
         THEN NamedEntries(Tail(collection))
         ELSE <<<<Head(collection).name, Head(collection).value>>>>
                  \o NamedEntries(Tail(collection))

\* the value the last entry of that name gives
LastValue(list, name) ==
    list[CHOOSE k \in 1..Len(list) :
            list[k][1] = name /\ \A j \in (k+1)..Len(list) : list[j][1] # name][2]

Dispatching(c) == c \in active /\ pc[c] = "await_http"

\* ------------------------------------------------------------------------
\* Claims
\* ------------------------------------------------------------------------

\* C1: in every request built by execute, the path passed to
\* createNcpSignature is the transmitted request-target: the path, followed
\* by '?' and the merged query string whenever that string is non-empty.
C1_SignedIsTransmitted ==
    \A c \in Calls :
        request[c] # None =>
            /\ signed[c][2] = RequestTarget(request[c])
            /\ signed[c][2] =
                   path[c] \o (IF QueryToString(qs[c]) # <<>>
                               THEN <<"?">> \o QueryToString(qs[c]) ELSE <<>>)

\* C2: the canonical message that is signed is METHOD, one space, the path,
\* a newline, the timestamp, a newline and the access key, in that order,
\* each unchanged, with nothing before, between or after.
C2_CanonicalMessage ==
    \A c \in Calls :
        signature[c] # None =>
            LET m  == signature[c].msg
                a  == signed[c]
                lp == Len(a[2])
                lt == Len(a[3])
                la == Len(a[4])
            IN  /\ a[1] \in Methods
                /\ Len(m) = 1 + 1 + lp + 1 + lt + 1 + la
                /\ m[1] = a[1]
                /\ m[2] = " "
                /\ SubSeq(m, 3, 2 + lp) = a[2]
                /\ m[3 + lp] = "\n"
                /\ SubSeq(m, 4 + lp, 3 + lp + lt) = a[3]
                /\ m[4 + lp + lt] = "\n"
                /\ SubSeq(m, 5 + lp + lt, Len(m)) = a[4]
                /\ signature[c].key = a[5]

C2_Witness ==
    \E c \in Calls :
        /\ signature[c] # None
        /\ Includes(signed[c][2], "?")
        /\ Len(signed[c][3]) = 2
        /\ signed[c][1] = "POST"

\* C3: with an embedded query string and an explicit collection, the merged
\* query has each name once, the explicit value wins, an overridden name
\* keeps its embedded position, explicit-only names follow in collection
\* order, empty names are ignored, and the merged query is what is signed
\* and transmitted; '/a?x=1' with x=2, y=3 gives '/a?x=2&y=3'.
C3_MergePrecedence ==
    \A c \in Calls :
        (Dispatching(c) /\ EmbeddedQuery(params[c].path) # <<>>
                        /\ params[c].query # <<>>) =>
            LET embedded == EmbeddedQuery(params[c].path)
                explicit == NamedEntries(params[c].query)
                names    == NamesOnce(embedded \o explicit)
                wanted   == [k \in 1..Len(names) |->
                               <<names[k],
                                 IF HasName(explicit, names[k])
                                 THEN LastValue(explicit, names[k])
                                 ELSE LastValue(embedded, names[k])>>]
                target   == PathOrRoot(BarePath(params[c].path))
                                \o <<"?">> \o QueryToString(wanted)
            IN  /\ \A k \in 1..Len(qs[c]) : qs[c][k] = wanted[k]
                /\ Len(qs[c]) = Len(names)
                /\ signed[c][2] = target
                /\ RequestTarget(request[c]) = target

\* C4: the signed path has a '?' exactly when the merged query string is
\* non-empty; without an embedded query and without a named explicit
\* parameter it is the bare path.
C4_QuestionMarkIffQuery ==
    \A c \in Calls :
        signed[c] # None =>
            /\ Includes(signed[c][2], "?") <=> (QueryToString(qs[c]) # <<>>)
            /\ (~Includes(params[c].path, "?") /\ NamedEntries(params[c].query) = <<>>)
                   => signed[c][2] = params[c].path

\* C5: the timestamp header, the access-key header and the method of a
\* dispatched request are the ones that were signed, and the signature
\* header is createNcpSignature of exactly those inputs.
C5_HeadersMatchSigned ==
    \A c \in Calls :
        request[c] # None =>
            /\ request[c].headers.ts = signed[c][3]
            /\ request[c].headers.accessKey = signed[c][4]
            /\ request[c].headers.signature =
                   createNcpSignature(signed[c][1], signed[c][2], signed[c][3],
                                      signed[c][4], signed[c][5])
            /\ request[c].method = signed[c][1]
            /\ signed[c][1] = params[c].method
            /\ signed[c][3] = timestamp[c]

C5_Witness ==
    \E c \in Calls :
        /\ Dispatching(c)
        /\ request[c].method = "PUT"
        /\ request[c].headers.ts = <<"1", "0">>
        /\ request[c].headers.accessKey = Credentials.accessKey

\* C6: malformed input (empty path, path not starting with '/', body that
\* is not valid JSON when a body is sent) is reported before signing: no
\* signature is computed and no request is dispatched for such an item.
Malformed(p) ==
    \/ p.path = <<>>
    \/ ~StartsWith(p.path, "/")
    \/ p.sendBody /\ p.bodyJson \notin ValidJson

C6_MalformedNeverSigned ==
    \A c \in Calls :
        (params[c] # NoParams /\ Malformed(params[c])) =>
            /\ signed[c] = None
            /\ request[c] = None
            /\ pc[c] \in {"await_creds", "failed"}

\* C7 as stated: the error execute raises for a transport error is the
\* transport's error itself.
C7_TransportErrorUnmodified ==
    \A c \in Calls :
        (pc[c] = "failed" /\ thrown[c] \in TransportErrors) => error[c] = thrown[c]

\* C7 amended: the error execute raises for a transport error is a
\* NodeApiError made of the transport's error, which it carries unchanged.
C7_TransportErrorWrapped ==
    \A c \in Calls :
        (pc[c] = "failed" /\ thrown[c] \in TransportErrors) =>
            /\ Head(error[c]) = "NodeApiError"
            /\ Tail(error[c]) = thrown[c]

C7_Witness ==
    \E c \in Calls :
        pc[c] = "failed" /\ thrown[c] = <<"HTTP 500">> /\ idx[c] = 1

\* C8: under any interleaving of execute calls and across the items of one
\* call, the request built for an item is a function of that item's own
\* parameters, the credentials and its own timestamp.
OwnRequest(v, p, ts) ==
    LET split  == IF v = 1 THEN SplitPathV1(p.path, <<>>) ELSE SplitPathV2(p.path, <<>>)
        merged == IF v = 1 THEN MergeQueryV1(split.qs, p.query)
                           ELSE MergeQueryV2(split.qs, p.query)
        sig    == createNcpSignature(p.method, SignedPath(v, split.path, merged), ts,
                                     Credentials.accessKey, Credentials.secretKey)
    IN  RequestOptions(v, p.method, BaseUrlOf(p), split.path, merged,
                       Headers(ts, Credentials.accessKey, sig),
                       IF p.sendBody THEN BodyData(p.bodyJson) ELSE NoBody)

C8_RequestDependsOnOwnItem ==
    \A c \in Calls :
        request[c] # None =>
            /\ request[c] = OwnRequest(version, params[c], timestamp[c])
            /\ \A d \in Calls :
                   (request[d] # None /\ params[d] = params[c]
                        /\ timestamp[d] = timestamp[c]) => request[d] = request[c]

C8_Witness ==
    \E c, d \in Calls :
        /\ c # d
        /\ Dispatching(c) /\ Dispatching(d)
        /\ idx[c] = 1 /\ idx[d] = 0
        /\ params[c] # params[d]
        /\ timestamp[c] # timestamp[d]
        /\ EmbeddedQuery(params[c].path) = <<>> /\ params[c].query = <<>>
        /\ qs[d] # <<>>

\* C10: items are processed in order with no retry: one request per item at
\* most, the next request only after the previous response, one result per
\* item in input order on success, and after a failure no result and no
\* further request.
C10_State ==
    \A c \in Calls :
        /\ \A k \in 1..Len(dispatched[c]) : dispatched[c][k] = k - 1
        /\ Len(dispatched[c]) <= nItems[c]
        /\ Len(dispatched[c]) <= Len(returnItems[c]) + 1
        /\ pc[c] = "await_http" => Len(dispatched[c]) = Len(returnItems[c]) + 1
        /\ pc[c] = "done" =>
               /\ output[c] = <<returnItems[c]>>
               /\ Len(returnItems[c]) = nItems[c]
               /\ \A k \in 1..Len(returnItems[c]) : returnItems[c][k].item = k - 1
        /\ pc[c] # "done" => output[c] = None
        /\ pc[c] = "failed" => error[c] # None

C10_Step ==
    \A c \in Calls :
        /\ pc[c] = "failed" =>
               pc'[c] = "failed" /\ dispatched'[c] = dispatched[c] /\ output'[c] = None
        /\ Len(dispatched'[c]) <= Len(dispatched[c]) + 1
        /\ \A k \in 1..Len(dispatched[c]) :
               k <= Len(dispatched'[c]) /\ dispatched'[c][k] = dispatched[c][k]

C10_InOrderNoRetry == [](C10_State) /\ [][C10_Step]_vars

C10_Witness ==
    \E c \in Calls :
        /\ pc[c] = "done"
        /\ nItems[c] >= 2
        /\ Len(output[c][1]) = nItems[c]

====
